---- MODULE Spec2Model ----
(***************************************************************************)
(* The three Step Functions state machines declared by the constructs of   *)
(* amazon-textract-grader, executed with the semantics of the Amazon       *)
(* States Language:                                                        *)
(*   - the document-analysis job runner                                    *)
(*     (AmazonTextractMultiPagesDocumentsStateMachineConstruct),           *)
(*   - the orientation-correction pipeline                                 *)
(*     (CorrectPdfOrientationStateMachineConstruct),                       *)
(*   - the top-level orchestrator                                          *)
(*     (AssignmentsTextractStateMachineConstruct).                         *)
(* A state's JSON document is a record; an absent field is a name outside  *)
(* its DOMAIN.  Each machine has its own specification.                    *)
(***************************************************************************)
EXTENDS Naturals, Sequences, FiniteSets, TLC

VARIABLES
  jinput,      \* job runner: the execution input
  jpc,         \* job runner: the current state of the definition
  jdoc,        \* job runner: the JSON document flowing through the states
  jexec,       \* job runner: RUNNING, SUCCEEDED, FAILED or TIMED_OUT
  jerr,        \* job runner: error and cause of a failed execution
  jout,        \* job runner: output of a succeeded execution
  clock,       \* job runner: whole minutes since the execution started
  svcJobId,    \* the JobId the analysis service returned to StartDocumentAnalysis
  polledJobId, \* the JobId the last GetDocumentAnalysis call asked about
  prevStatus,  \* the JobStatus in the document before the last poll that returned
  submits,     \* number of StartDocumentAnalysis calls made
  pinput,      \* orientation pipeline: the execution input
  ppc,         \* orientation pipeline: the current state of the definition
  pdoc,        \* orientation pipeline: the JSON document flowing through
  pexec,       \* orientation pipeline: RUNNING, SUCCEEDED, FAILED or TIMED_OUT
  pout,        \* orientation pipeline: output of a succeeded execution
  ptrace,      \* orientation pipeline: the states entered so far, in order
  pwaited,     \* orientation pipeline: seconds spent in Wait states
  pretries,    \* orientation pipeline: retries made of the current state
  perr,        \* orientation pipeline: error of the current state's last failed attempt
  oinput,      \* orchestrator: the execution input
  opc,         \* orchestrator: the current state of the definition
  odoc,        \* orchestrator: the JSON document at the top level
  oexec,       \* orchestrator: RUNNING, SUCCEEDED, FAILED or TIMED_OUT
  oout,        \* orchestrator: output of a succeeded execution
  bpc,         \* orchestrator: the current state of each parallel branch
  bphase,      \* orchestrator: each branch's progress within its state
  bdoc,        \* orchestrator: the JSON document of each parallel branch
  started,     \* orchestrator: the child executions started, in order, with inputs
  completed,   \* orchestrator: the output of each child execution that succeeded
  failed,      \* orchestrator: the child execution that failed, if one did
  finished     \* orchestrator: the branches that completed, in completion order

jvars == <<jinput, jpc, jdoc, jexec, jerr, jout, clock, svcJobId, polledJobId,
           prevStatus, submits>>
pvars == <<pinput, ppc, pdoc, pexec, pout, ptrace, pwaited, pretries, perr>>
ovars == <<oinput, opc, odoc, oexec, oout, bpc, bphase, bdoc, started, completed,
           failed, finished>>
vars == <<jvars, pvars, ovars>>

-----------------------------------------------------------------------------
(* Bounds and the values the environment draws from.                       *)

\* Longest time, in minutes, a service call takes to return.
MaxTaskMinutes == 1

Keys == {"s.pdf", "a.pdf"}
JobIds == {"j1", "j2"}
\* The JobStatus values of the analysis service.
JobStatuses == {"IN_PROGRESS", "SUCCEEDED", "FAILED", "PARTIAL_SUCCESS"}

NoValue == "none"
EmptyDoc == [n \in {} |-> n]

-----------------------------------------------------------------------------
(* Amazon States Language helpers used by the definitions.                 *)

\* resultPath '$.<field>': the result is written into the state's document.
ResultPath(doc, field, result) ==
  [n \in DOMAIN doc \cup {field} |-> IF n = field THEN result ELSE doc[n]]

\* The value at a JSONPath, given as the field names after the '$'.
RECURSIVE JsonPath(_, _)
JsonPath(doc, path) ==
  IF path = <<>> THEN doc ELSE JsonPath(doc[Head(path)], Tail(path))

\* States.Format: each "{}" of the template takes the next argument.
RECURSIVE StatesFormat(_, _)
StatesFormat(template, args) ==
  IF Len(template) = 0 THEN ""
  ELSE IF Len(template) >= 2 /\ SubSeq(template, 1, 2) = "{}"
       THEN Head(args) \o StatesFormat(SubSeq(template, 3, Len(template)), Tail(args))
       ELSE SubSeq(template, 1, 1)
              \o StatesFormat(SubSeq(template, 2, Len(template)), args)

-----------------------------------------------------------------------------
(* The document-analysis job runner.                                       *)

WaitMinutes == 1
TimeoutMinutes == 180

JobFailedError == [error |-> "DescribeJob returned FAILED",
                   cause |-> "Amazon Textract Job Failed"]
\* A thrown service call: the execution's error is the name of the service's
\* exception.
ServiceErrors ==
  {"Textract.ThrottlingException", "Textract.ProvisionedThroughputExceededException"}
TaskFailedErrors ==
  {[error |-> e, cause |-> "service call failed"] : e \in ServiceErrors}
TimeoutError == [error |-> "States.Timeout", cause |-> "execution timed out"]
NoError == [error |-> "", cause |-> ""]

\* definition = runAmazonTextract.next(wait).next(getDocumentAnalysis).next(choice)
M_AfterRunAmazonTextract_NoWait == "GetDocumentAnalysis"
AfterRunAmazonTextract == "Wait1Minute"
M_AfterWait_Submit == "RunAmazonTextract"
AfterWait == "GetDocumentAnalysis"
AfterGetDocumentAnalysis == "CheckJobStatus"

\* choice: the first matching rule of 'Check Job Status', else the default.
M_CheckJobStatus_NoFailedRule(doc) ==
  IF doc.status.JobStatus = "SUCCEEDED" THEN "JobFinish" ELSE "Wait1Minute"
M_CheckJobStatus_PartialFinishes(doc) ==
  IF doc.status.JobStatus = "FAILED" THEN "JobFailed"
  ELSE IF doc.status.JobStatus \in {"SUCCEEDED", "PARTIAL_SUCCESS"} THEN "JobFinish"
  ELSE "Wait1Minute"
M_CheckJobStatus_PollAgain(doc) ==
  IF doc.status.JobStatus = "FAILED" THEN "JobFailed"
  ELSE IF doc.status.JobStatus = "SUCCEEDED" THEN "JobFinish"
  ELSE "GetDocumentAnalysis"
CheckJobStatus(doc) ==
  IF doc.status.JobStatus = "FAILED" THEN "JobFailed"
  ELSE IF doc.status.JobStatus = "SUCCEEDED" THEN "JobFinish"
  ELSE "Wait1Minute"

\* jobFinish: the Pass state's parameters replace the document.
M_JobFinishParameters_Swapped(doc) ==
  [key |-> doc.key,
   JobId |-> doc.textract.JobId,
   textractPrefix |-> StatesFormat("{}/{}", <<doc.textract.JobId, doc.key>>)]
JobFinishParameters(doc) ==
  [key |-> doc.key,
   JobId |-> doc.textract.JobId,
   textractPrefix |-> StatesFormat("{}/{}", <<doc.key, doc.textract.JobId>>)]

\* The states in which time passes; a Choice, Pass or Fail state takes none.
JobTimedStates == {"RunAmazonTextract", "Wait1Minute", "GetDocumentAnalysis"}

\* timeout: the execution is stopped once TimeoutMinutes have passed.
JobDeadlineReached(c) == c >= TimeoutMinutes

JobInputs ==
  {[key |-> k] : k \in Keys} \cup {[key |-> k, skipRotation |-> TRUE] : k \in Keys}

\* The state of a job-runner execution that has just started.
JobStart ==
  /\ jinput \in JobInputs
  /\ jpc = "RunAmazonTextract"
  /\ jdoc = jinput
  /\ jexec = "RUNNING"
  /\ jerr = NoError
  /\ jout = EmptyDoc
  /\ clock = 0
  /\ svcJobId = NoValue
  /\ polledJobId = NoValue
  /\ prevStatus = NoValue
  /\ submits = 0

\* runAmazonTextract: startDocumentAnalysis on $.key; resultSelector keeps the
\* JobId, resultPath '$.textract'.
RunAmazonTextract ==
  /\ jexec = "RUNNING" /\ jpc = "RunAmazonTextract"
  /\ \E d \in 0..MaxTaskMinutes, j \in JobIds :
       /\ ~JobDeadlineReached(clock + d)
       /\ clock' = clock + d
       /\ svcJobId' = j
       /\ jdoc' = ResultPath(jdoc, "textract", [JobId |-> j])
  /\ submits' = submits + 1
  /\ jpc' = AfterRunAmazonTextract
  /\ UNCHANGED <<jinput, jexec, jerr, jout, polledJobId, prevStatus>>
  /\ UNCHANGED <<pvars, ovars>>

\* wait: 'Wait 1 minute'.
Wait ==
  /\ jexec = "RUNNING" /\ jpc = "Wait1Minute"
  /\ ~JobDeadlineReached(clock + WaitMinutes)
  /\ clock' = clock + WaitMinutes
  /\ jpc' = AfterWait
  /\ UNCHANGED <<jinput, jdoc, jexec, jerr, jout, svcJobId, polledJobId,
                 prevStatus, submits>>
  /\ UNCHANGED <<pvars, ovars>>

\* getDocumentAnalysis: resultSelector keeps the JobStatus, resultPath
\* '$.status' puts it into the document.
M_GetDocumentAnalysisResult_ReplacesDocument(doc, s) ==
  [status |-> [JobStatus |-> s]]
GetDocumentAnalysisResult(doc, s) ==
  ResultPath(doc, "status", [JobStatus |-> s])

\* getDocumentAnalysis: asks about $.textract.JobId.
GetDocumentAnalysis ==
  /\ jexec = "RUNNING" /\ jpc = "GetDocumentAnalysis"
  /\ \E d \in 0..MaxTaskMinutes, s \in JobStatuses :
       /\ ~JobDeadlineReached(clock + d)
       /\ clock' = clock + d
       /\ jdoc' = GetDocumentAnalysisResult(jdoc, s)
  /\ polledJobId' = jdoc.textract.JobId
  /\ prevStatus' = IF "status" \in DOMAIN jdoc THEN jdoc.status.JobStatus ELSE NoValue
  /\ jpc' = AfterGetDocumentAnalysis
  /\ UNCHANGED <<jinput, jexec, jerr, jout, svcJobId, submits>>
  /\ UNCHANGED <<pvars, ovars>>

\* A service call that throws: the tasks declare no Retry and no Catch.  The
\* request was sent, so a submit counts as made and a poll has asked about
\* $.textract.JobId.
JobTaskFails ==
  /\ jexec = "RUNNING" /\ jpc \in {"RunAmazonTextract", "GetDocumentAnalysis"}
  /\ \E d \in 0..MaxTaskMinutes :
       /\ ~JobDeadlineReached(clock + d)
       /\ clock' = clock + d
  /\ submits' = IF jpc = "RunAmazonTextract" THEN submits + 1 ELSE submits
  /\ jexec' = "FAILED"
  /\ jerr' \in TaskFailedErrors
  /\ polledJobId' = IF jpc = "GetDocumentAnalysis" THEN jdoc.textract.JobId
                     ELSE polledJobId
  /\ UNCHANGED <<jinput, jpc, jdoc, jout, svcJobId, prevStatus>>
  /\ UNCHANGED <<pvars, ovars>>

\* choice: 'Check Job Status'.
CheckJobStatusStep ==
  /\ jexec = "RUNNING" /\ jpc = "CheckJobStatus"
  /\ jpc' = CheckJobStatus(jdoc)
  /\ UNCHANGED <<jinput, jdoc, jexec, jerr, jout, clock, svcJobId, polledJobId,
                 prevStatus, submits>>
  /\ UNCHANGED <<pvars, ovars>>

\* jobFailed: the Fail state ends the execution with its error and cause.
JobFailed ==
  /\ jexec = "RUNNING" /\ jpc = "JobFailed"
  /\ jexec' = "FAILED"
  /\ jerr' = JobFailedError
  /\ UNCHANGED <<jinput, jpc, jdoc, jout, clock, svcJobId, polledJobId,
                 prevStatus, submits>>
  /\ UNCHANGED <<pvars, ovars>>

\* jobFinish: the last state of the definition; its output is the execution's.
JobFinish ==
  /\ jexec = "RUNNING" /\ jpc = "JobFinish"
  /\ jdoc' = JobFinishParameters(jdoc)
  /\ jout' = jdoc'
  /\ jexec' = "SUCCEEDED"
  /\ UNCHANGED <<jinput, jpc, jerr, clock, svcJobId, polledJobId, prevStatus,
                 submits>>
  /\ UNCHANGED <<pvars, ovars>>

\* stateMachine timeout: a state still running at the deadline is stopped.
JobTimeout ==
  /\ jexec = "RUNNING" /\ jpc \in JobTimedStates
  /\ \E d \in (IF jpc = "Wait1Minute" THEN {WaitMinutes} ELSE 0..MaxTaskMinutes) :
       JobDeadlineReached(clock + d)
  /\ clock' = TimeoutMinutes
  /\ jexec' = "TIMED_OUT"
  /\ jerr' = TimeoutError
  /\ UNCHANGED <<jinput, jpc, jdoc, jout, svcJobId, polledJobId, prevStatus,
                 submits>>
  /\ UNCHANGED <<pvars, ovars>>

NextJob ==
  \/ RunAmazonTextract
  \/ Wait
  \/ GetDocumentAnalysis
  \/ JobTaskFails
  \/ CheckJobStatusStep
  \/ JobFailed
  \/ JobFinish
  \/ JobTimeout

-----------------------------------------------------------------------------
(* The orientation-correction pipeline.                                    *)

WaitSeconds == 5

\* Most pages of a document the page-split step reports.
MaxPages == 3

SkipRotationInputs ==
  {[key |-> k] : k \in Keys}
    \cup {[key |-> k, skipRotation |-> f] : k \in Keys, f \in BOOLEAN}

\* The payloads the Lambda functions return.  The functions hand their event
\* on, each adding what it produced.
PdfToImagesPayload(event, pages) == ResultPath(event, "pages", pages)
AnalyzeDocumentImagesPayload(event) == ResultPath(event, "analyzed", TRUE)
CorrectImageOrientationPayload(event) == ResultPath(event, "corrected", TRUE)
ImagesToPdfPayload(event) == ResultPath(event, "pdf", TRUE)

\* getLambdaInvokeTask: tasks.LambdaInvoke is built without
\* retryOnServiceExceptions, which defaults to true: the state gets a Retry
\* for the Lambda service's own exceptions, MaxAttempts 6.  An error the
\* function raises is not among them.
MaxAttempts == 6
ServiceExceptions ==
  {"Lambda.ServiceException", "Lambda.AWSLambdaException", "Lambda.SdkClientException"}
LambdaErrors == ServiceExceptions \cup {"Error"}
M_LambdaInvokeOnError_RetryAll(err, retries) ==
  IF retries < MaxAttempts THEN "retry" ELSE "fail"
LambdaInvokeOnError(err, retries) ==
  IF err \in ServiceExceptions /\ retries < MaxAttempts THEN "retry" ELSE "fail"

\* getLambdaInvokeTask: resultPath '$.results', outputPath '$.results.Payload'.
LambdaInvokeOutput(doc, payload) ==
  ResultPath(doc, "results", [Payload |-> payload]).results.Payload

\* skipRotationChoice: Condition.isPresent('$.skipRotation'), else the default.
M_SkipRotationChoice_Inverted(doc) ==
  IF "skipRotation" \in DOMAIN doc THEN "analyzeDocumentImagesTask"
  ELSE "SkipFixingRotation"
SkipRotationChoice(doc) ==
  IF "skipRotation" \in DOMAIN doc THEN "SkipFixingRotation"
  ELSE "analyzeDocumentImagesTask"

\* definition = pdfToImagesTask.next(skipRotationChoice); the default branch is
\* analyze -> correct -> 'Wait 5 seconds'; afterwards().next(imagesToPdfTask).
AfterPdfToImages == "skipRotationChoice"
AfterAnalyzeDocumentImages == "correctImageOrientationTask"
M_AfterCorrectImageOrientation_NoWait == "imagesToPdfTask"
AfterCorrectImageOrientation == "Wait5Seconds"
Afterwards == "imagesToPdfTask"

PipelineTasks == {"pdfToImagesTask", "analyzeDocumentImagesTask",
                  "correctImageOrientationTask", "imagesToPdfTask"}
PipelineTimedStates == PipelineTasks \cup {"Wait5Seconds"}

\* The state of a pipeline execution that has just started.
PipelineStart ==
  /\ pinput \in SkipRotationInputs
  /\ ppc = "pdfToImagesTask"
  /\ pdoc = pinput
  /\ pexec = "RUNNING"
  /\ pout = EmptyDoc
  /\ ptrace = <<"pdfToImagesTask">>
  /\ pwaited = 0
  /\ pretries = 0
  /\ perr = NoValue

\* Entering a state; its retry count starts at zero.
PipelineEnter(state) ==
  /\ ppc' = state
  /\ ptrace' = Append(ptrace, state)
  /\ pretries' = 0
  /\ perr' = NoValue

PdfToImagesTask ==
  /\ pexec = "RUNNING" /\ ppc = "pdfToImagesTask"
  /\ \E n \in 1..MaxPages :
       pdoc' = LambdaInvokeOutput(pdoc, PdfToImagesPayload(pdoc, n))
  /\ PipelineEnter(AfterPdfToImages)
  /\ UNCHANGED <<pinput, pexec, pout, pwaited>>
  /\ UNCHANGED <<jvars, ovars>>

SkipRotationChoiceStep ==
  /\ pexec = "RUNNING" /\ ppc = "skipRotationChoice"
  /\ PipelineEnter(SkipRotationChoice(pdoc))
  /\ UNCHANGED <<pinput, pdoc, pexec, pout, pwaited>>
  /\ UNCHANGED <<jvars, ovars>>

\* 'Skip Fixing Rotation': a Pass state with no parameters.
SkipFixingRotation ==
  /\ pexec = "RUNNING" /\ ppc = "SkipFixingRotation"
  /\ PipelineEnter(Afterwards)
  /\ UNCHANGED <<pinput, pdoc, pexec, pout, pwaited>>
  /\ UNCHANGED <<jvars, ovars>>

AnalyzeDocumentImagesTask ==
  /\ pexec = "RUNNING" /\ ppc = "analyzeDocumentImagesTask"
  /\ pdoc' = LambdaInvokeOutput(pdoc, AnalyzeDocumentImagesPayload(pdoc))
  /\ PipelineEnter(AfterAnalyzeDocumentImages)
  /\ UNCHANGED <<pinput, pexec, pout, pwaited>>
  /\ UNCHANGED <<jvars, ovars>>

CorrectImageOrientationTask ==
  /\ pexec = "RUNNING" /\ ppc = "correctImageOrientationTask"
  /\ pdoc' = LambdaInvokeOutput(pdoc, CorrectImageOrientationPayload(pdoc))
  /\ PipelineEnter(AfterCorrectImageOrientation)
  /\ UNCHANGED <<pinput, pexec, pout, pwaited>>
  /\ UNCHANGED <<jvars, ovars>>

\* 'Wait 5 seconds'.
Wait5Seconds ==
  /\ pexec = "RUNNING" /\ ppc = "Wait5Seconds"
  /\ pwaited' = pwaited + WaitSeconds
  /\ PipelineEnter(Afterwards)
  /\ UNCHANGED <<pinput, pdoc, pexec, pout>>
  /\ UNCHANGED <<jvars, ovars>>

\* imagesToPdfTask: the last state of the definition.
ImagesToPdfTask ==
  /\ pexec = "RUNNING" /\ ppc = "imagesToPdfTask"
  /\ pdoc' = LambdaInvokeOutput(pdoc, ImagesToPdfPayload(pdoc))
  /\ pout' = pdoc'
  /\ pexec' = "SUCCEEDED"
  /\ UNCHANGED <<pinput, ppc, ptrace, pwaited, pretries, perr>>
  /\ UNCHANGED <<jvars, ovars>>

\* A Lambda invocation whose error the state's Retry matches, with attempts
\* left: the state is run again on the same input.
PipelineTaskRetry ==
  /\ pexec = "RUNNING" /\ ppc \in PipelineTasks
  /\ \E err \in LambdaErrors :
       /\ LambdaInvokeOnError(err, pretries) = "retry"
       /\ perr' = err
  /\ pretries' = pretries + 1
  /\ UNCHANGED <<pinput, ppc, pdoc, pexec, pout, ptrace, pwaited>>
  /\ UNCHANGED <<jvars, ovars>>

\* A Lambda invocation that ends in an error the Retry does not match, or
\* matches with no attempt left; there is no Catch, so the execution fails.
PipelineTaskFails ==
  /\ pexec = "RUNNING" /\ ppc \in PipelineTasks
  /\ \E err \in LambdaErrors :
       /\ LambdaInvokeOnError(err, pretries) = "fail"
       /\ perr' = err
  /\ pexec' = "FAILED"
  /\ UNCHANGED <<pinput, ppc, pdoc, pout, ptrace, pwaited, pretries>>
  /\ UNCHANGED <<jvars, ovars>>

\* stateMachine timeout: a state still running at the deadline is stopped.
PipelineTimeout ==
  /\ pexec = "RUNNING" /\ ppc \in PipelineTimedStates
  /\ pexec' = "TIMED_OUT"
  /\ UNCHANGED <<pinput, ppc, pdoc, pout, ptrace, pwaited, pretries, perr>>
  /\ UNCHANGED <<jvars, ovars>>

NextPipeline ==
  \/ PdfToImagesTask
  \/ SkipRotationChoiceStep
  \/ SkipFixingRotation
  \/ AnalyzeDocumentImagesTask
  \/ CorrectImageOrientationTask
  \/ Wait5Seconds
  \/ ImagesToPdfTask
  \/ PipelineTaskRetry
  \/ PipelineTaskFails
  \/ PipelineTimeout

-----------------------------------------------------------------------------
(* The top-level orchestrator.                                             *)

\* What an execution of each child state machine returns for an input.
\* The orientation pipeline, run to its end on `input`.
CorrectPdfOrientationOutput(input, pages) ==
  LET split == LambdaInvokeOutput(input, PdfToImagesPayload(input, pages))
      fixed == IF SkipRotationChoice(split) = "SkipFixingRotation" THEN split
               ELSE LET analyzed == LambdaInvokeOutput(split,
                                      AnalyzeDocumentImagesPayload(split))
                    IN LambdaInvokeOutput(analyzed,
                         CorrectImageOrientationPayload(analyzed))
  IN LambdaInvokeOutput(fixed, ImagesToPdfPayload(fixed))

\* The job runner, run to 'Job Finish' on `input` with job `jobId`.
AmazonTextractOutput(input, jobId) ==
  JobFinishParameters(
    ResultPath(ResultPath(input, "textract", [JobId |-> jobId]),
               "status", [JobStatus |-> "SUCCEEDED"]))

\* The result-transform and mark-generation machines: a payload made from
\* the input.
TransformFormResultOutput(input) == [transformed |-> input]
GenerateMarkResultOutput(input) == [marks |-> input]

\* getStateMachineExecution(sid, stateMachine, inputPath = '$.Input')
DefaultInputPath == <<"Input">>
GetStateMachineExecution(sid, stateMachine, inputPath) ==
  [sid |-> sid, stateMachine |-> stateMachine, inputPath |-> inputPath]

scriptsCorrectPdfOrientationStateMachineExecution ==
  GetStateMachineExecution("ScriptsCorrectPdfOrientationStateMachineExecution",
                           "CorrectPdfOrientation", DefaultInputPath)
answerCorrectPdfOrientationStateMachineExecution ==
  GetStateMachineExecution("AnswerCorrectPdfOrientationStateMachineExecution",
                           "CorrectPdfOrientation", DefaultInputPath)
answerAmazonTextractMultiPagesDocumentsStateMachineExecution ==
  GetStateMachineExecution(
    "AnswerAmazonTextractMultiPagesDocumentsStateMachineExecution",
    "AmazonTextractMultiPagesDocuments", DefaultInputPath)
scriptsAmazonTextractMultiPagesDocumentsStateMachineExecution ==
  GetStateMachineExecution(
    "ScriptsAmazonTextractMultiPagesDocumentsStateMachineExecution",
    "AmazonTextractMultiPagesDocuments", DefaultInputPath)
answerTransformFormResultStateMachineExecution ==
  GetStateMachineExecution("AnswerTransformFormResultStateMachineExecution",
                           "TransformFormResult", <<"Output">>)
M_scriptsTransformFormResult_DefaultInputPath ==
  GetStateMachineExecution("ScriptsTransformFormResultStateMachineExecution",
                           "TransformFormResult", DefaultInputPath)
scriptsTransformFormResultStateMachineExecution ==
  GetStateMachineExecution("ScriptsTransformFormResultStateMachineExecution",
                           "TransformFormResult", <<"Output">>)
M_generateMarkResult_ScriptsOnly ==
  GetStateMachineExecution("GenerateMarkResultStateMachineExecution",
                           "GenerateMarkResult", <<"scripts">>)
generateMarkResultStateMachineExecution ==
  GetStateMachineExecution("GenerateMarkResultStateMachineExecution",
                           "GenerateMarkResult", <<>>)

\* The tasks declare no Retry and no Catch: a failed child execution fails
\* the state.
M_ExecutionTaskOnError_Retry == "retry"
ExecutionTaskOnError == "fail"

\* The result of startExecution.sync:2 for a child that succeeded.  Input is
\* the JSON text of the child's input; a task that takes it as its own input
\* starts its child on the same document.
ExecutionResult(input, output) ==
  [Input |-> input, Output |-> output, Status |-> "SUCCEEDED"]

\* resultPath '$.results', outputPath '$.results'.
ExecutionTaskOutput(doc, result) == ResultPath(doc, "results", result).results

\* standardAnswerPass / scriptsPass: the parameters, written to '$.Input'.
M_StandardAnswerPass_NoFlag(doc) ==
  ResultPath(doc, "Input", [key |-> doc.standardAnswerKey])
StandardAnswerPass(doc) ==
  ResultPath(doc, "Input", [key |-> doc.standardAnswerKey, skipRotation |-> TRUE])
ScriptsPass(doc) == ResultPath(doc, "Input", [key |-> doc.scriptsKey])

Branches == {0, 1}

\* parallel.branch(...): the states of branch 0 and of branch 1, in order.
M_BranchDefinition_AnalysisFirst(b) ==
  IF b = 0
  THEN <<"ScriptsPass",
         scriptsCorrectPdfOrientationStateMachineExecution,
         scriptsAmazonTextractMultiPagesDocumentsStateMachineExecution,
         scriptsTransformFormResultStateMachineExecution>>
  ELSE <<"StandardAnswerPass",
         answerAmazonTextractMultiPagesDocumentsStateMachineExecution,
         answerCorrectPdfOrientationStateMachineExecution,
         answerTransformFormResultStateMachineExecution>>
BranchDefinition(b) ==
  IF b = 0
  THEN <<"ScriptsPass",
         scriptsCorrectPdfOrientationStateMachineExecution,
         scriptsAmazonTextractMultiPagesDocumentsStateMachineExecution,
         scriptsTransformFormResultStateMachineExecution>>
  ELSE <<"StandardAnswerPass",
         answerCorrectPdfOrientationStateMachineExecution,
         answerAmazonTextractMultiPagesDocumentsStateMachineExecution,
         answerTransformFormResultStateMachineExecution>>

BranchState(b) == BranchDefinition(b)[bpc[b]]

\* The output of the Parallel state: the branch outputs, in branch order.
M_ParallelOutput_ByCompletion(docs, order) == [i \in Branches |-> docs[order[i + 1]]]
ParallelOutput(docs, order) == [i \in Branches |-> docs[i]]

\* parallel resultSelector: 'scripts.$': '$.[0].Output',
\* 'standardAnswer.$': '$.[1].Output'.
ParallelResultSelector(out) ==
  [scripts |-> out[0].Output, standardAnswer |-> out[1].Output]

OrchInputs ==
  {[scriptsKey |-> s, standardAnswerKey |-> a] : s \in Keys, a \in Keys}
    \cup {[scriptsKey |-> s, standardAnswerKey |-> a, skipRotation |-> TRUE,
             Input |-> [key |-> a, skipRotation |-> TRUE]] :
            s \in Keys, a \in Keys}

\* The state of an orchestrator execution that has just started.
OrchStart ==
  /\ oinput \in OrchInputs
  /\ opc = "StartPass"
  /\ odoc = oinput
  /\ oexec = "RUNNING"
  /\ oout = EmptyDoc
  /\ bpc = [b \in Branches |-> 1]
  /\ bphase = [b \in Branches |-> "idle"]
  /\ bdoc = [b \in Branches |-> EmptyDoc]
  /\ started = <<>>
  /\ completed = EmptyDoc
  /\ failed = NoValue
  /\ finished = <<>>

\* start: a Pass state; the Parallel state then hands its input to each branch.
StartPass ==
  /\ oexec = "RUNNING" /\ opc = "StartPass"
  /\ opc' = "ProcessParallel"
  /\ bphase' = [b \in Branches |-> "ready"]
  /\ bdoc' = [b \in Branches |-> odoc]
  /\ UNCHANGED <<oinput, odoc, oexec, oout, bpc, started, completed, failed,
                 finished>>
  /\ UNCHANGED <<jvars, pvars>>

InParallel == oexec = "RUNNING" /\ opc = "ProcessParallel"

\* The first state of a branch: its Pass state.
BranchPass(b) ==
  /\ InParallel /\ bphase[b] = "ready" /\ bpc[b] = 1
  /\ bdoc' = [bdoc EXCEPT ![b] = IF BranchState(b) = "ScriptsPass"
                                 THEN ScriptsPass(bdoc[b])
                                 ELSE StandardAnswerPass(bdoc[b])]
  /\ bpc' = [bpc EXCEPT ![b] = 2]
  /\ UNCHANGED <<oinput, opc, odoc, oexec, oout, bphase, started, completed,
                 failed, finished>>
  /\ UNCHANGED <<jvars, pvars>>

\* A task state of a branch starts its child execution on the input at its
\* input path.
BranchStartExecution(b) ==
  /\ InParallel /\ bphase[b] = "ready" /\ bpc[b] > 1
  /\ started' = Append(started,
                  [sid |-> BranchState(b).sid,
                   input |-> JsonPath(bdoc[b], BranchState(b).inputPath)])
  /\ bphase' = [bphase EXCEPT ![b] = "running"]
  /\ UNCHANGED <<oinput, opc, odoc, oexec, oout, bpc, bdoc, completed, failed,
                 finished>>
  /\ UNCHANGED <<jvars, pvars>>

\* The child execution of a branch's task state succeeds.
BranchExecutionSucceeds(b) ==
  /\ InParallel /\ bphase[b] = "running"
  /\ LET task == BranchState(b)
         input == JsonPath(bdoc[b], task.inputPath)
         last == bpc[b] = Len(BranchDefinition(b))
     IN \E pages \in 1..MaxPages, j \in JobIds :
          LET output ==
                IF task.stateMachine = "CorrectPdfOrientation"
                THEN CorrectPdfOrientationOutput(input, pages)
                ELSE IF task.stateMachine = "AmazonTextractMultiPagesDocuments"
                THEN AmazonTextractOutput(input, j)
                ELSE TransformFormResultOutput(input)
          IN /\ bdoc' = [bdoc EXCEPT
                           ![b] = ExecutionTaskOutput(bdoc[b],
                                    ExecutionResult(input, output))]
             /\ completed' = ResultPath(completed, task.sid, output)
             /\ bpc' = [bpc EXCEPT ![b] = IF last THEN @ ELSE @ + 1]
             /\ bphase' = [bphase EXCEPT ![b] = IF last THEN "done" ELSE "ready"]
             /\ finished' = IF last THEN Append(finished, b) ELSE finished
  /\ UNCHANGED <<oinput, opc, odoc, oexec, oout, started, failed>>
  /\ UNCHANGED <<jvars, pvars>>

\* The child execution of a branch's task state fails: the state fails, its
\* branch fails, the Parallel state fails and stops the other branch, and
\* the execution fails.
BranchExecutionFails(b) ==
  /\ InParallel /\ bphase[b] = "running"
  /\ failed' = BranchState(b).sid
  /\ IF ExecutionTaskOnError = "fail"
     THEN /\ bphase' = [c \in Branches |->
                          IF c = b THEN "failed"
                          ELSE IF bphase[c] = "done" THEN "done" ELSE "aborted"]
          /\ oexec' = "FAILED"
     ELSE /\ bphase' = [bphase EXCEPT ![b] = "ready"]
          /\ oexec' = oexec
  /\ UNCHANGED <<oinput, opc, odoc, oout, bpc, bdoc, started, completed, finished>>
  /\ UNCHANGED <<jvars, pvars>>

\* Both branches completed: the Parallel state's resultSelector makes its
\* output, and the definition moves on to the mark-generation task.
ProcessParallel ==
  /\ InParallel /\ \A b \in Branches : bphase[b] = "done"
  /\ odoc' = ParallelResultSelector(ParallelOutput(bdoc, finished))
  /\ opc' = "GenerateMarkResultStateMachineExecution"
  /\ UNCHANGED <<oinput, oexec, oout, bpc, bphase, bdoc, started, completed,
                 failed, finished>>
  /\ UNCHANGED <<jvars, pvars>>

GenerateMarkStarted ==
  \E i \in 1..Len(started) : started[i].sid = "GenerateMarkResultStateMachineExecution"

AtGenerateMark ==
  oexec = "RUNNING" /\ opc = "GenerateMarkResultStateMachineExecution"

GenerateMarkStart ==
  /\ AtGenerateMark /\ ~GenerateMarkStarted
  /\ started' = Append(started,
                  [sid |-> generateMarkResultStateMachineExecution.sid,
                   input |-> JsonPath(odoc,
                               generateMarkResultStateMachineExecution.inputPath)])
  /\ UNCHANGED <<oinput, opc, odoc, oexec, oout, bpc, bphase, bdoc, completed,
                 failed, finished>>
  /\ UNCHANGED <<jvars, pvars>>

\* The mark-generation task is the last state: its output is the execution's.
GenerateMarkSucceeds ==
  /\ AtGenerateMark /\ GenerateMarkStarted
  /\ LET task == generateMarkResultStateMachineExecution
         input == JsonPath(odoc, task.inputPath)
         output == GenerateMarkResultOutput(input)
     IN /\ odoc' = ExecutionTaskOutput(odoc, ExecutionResult(input, output))
        /\ completed' = ResultPath(completed, task.sid, output)
  /\ oout' = odoc'
  /\ oexec' = "SUCCEEDED"
  /\ UNCHANGED <<oinput, opc, bpc, bphase, bdoc, started, failed, finished>>
  /\ UNCHANGED <<jvars, pvars>>

GenerateMarkFails ==
  /\ AtGenerateMark /\ GenerateMarkStarted
  /\ failed' = generateMarkResultStateMachineExecution.sid
  /\ oexec' = "FAILED"
  /\ UNCHANGED <<oinput, opc, odoc, oout, bpc, bphase, bdoc, started, completed,
                 finished>>
  /\ UNCHANGED <<jvars, pvars>>

\* stateMachine timeout: the execution is stopped while a child is running.
OrchTimeout ==
  /\ oexec = "RUNNING"
  /\ \/ InParallel /\ \E b \in Branches : bphase[b] = "running"
     \/ AtGenerateMark /\ GenerateMarkStarted
  /\ oexec' = "TIMED_OUT"
  /\ bphase' = [c \in Branches |->
                  IF bphase[c] = "done" THEN "done" ELSE "aborted"]
  /\ UNCHANGED <<oinput, opc, odoc, oout, bpc, bdoc, started, completed, failed,
                 finished>>
  /\ UNCHANGED <<jvars, pvars>>

NextOrch ==
  \/ StartPass
  \/ \E b \in Branches : BranchPass(b)
  \/ \E b \in Branches : BranchStartExecution(b)
  \/ \E b \in Branches : BranchExecutionSucceeds(b)
  \/ \E b \in Branches : BranchExecutionFails(b)
  \/ ProcessParallel
  \/ GenerateMarkStart
  \/ GenerateMarkSucceeds
  \/ GenerateMarkFails
  \/ OrchTimeout

-----------------------------------------------------------------------------
(* The specifications: one machine runs, the other two have no execution.  *)

JobIdle ==
  /\ jinput = EmptyDoc /\ jpc = NoValue /\ jdoc = EmptyDoc /\ jexec = NoValue
  /\ jerr = NoError /\ jout = EmptyDoc /\ clock = 0 /\ svcJobId = NoValue
  /\ polledJobId = NoValue /\ prevStatus = NoValue /\ submits = 0

PipelineIdle ==
  /\ pinput = EmptyDoc /\ ppc = NoValue /\ pdoc = EmptyDoc /\ pexec = NoValue
  /\ pout = EmptyDoc /\ ptrace = <<>> /\ pwaited = 0
  /\ pretries = 0 /\ perr = NoValue

OrchIdle ==
  /\ oinput = EmptyDoc /\ opc = NoValue /\ odoc = EmptyDoc /\ oexec = NoValue
  /\ oout = EmptyDoc /\ bpc = <<>> /\ bphase = <<>> /\ bdoc = <<>>
  /\ started = <<>> /\ completed = EmptyDoc /\ failed = NoValue /\ finished = <<>>

InitJob == JobStart /\ PipelineIdle /\ OrchIdle
InitPipeline == JobIdle /\ PipelineStart /\ OrchIdle

SpecJob == InitJob /\ [][NextJob]_vars
FairSpecJob == SpecJob /\ WF_vars(NextJob)
InitOrch == JobIdle /\ PipelineIdle /\ OrchStart

SpecPipeline == InitPipeline /\ [][NextPipeline]_vars
SpecOrch == InitOrch /\ [][NextOrch]_vars

-----------------------------------------------------------------------------
(* Properties of the job runner.                                           *)

JobRunning == jexec = "RUNNING"
LastStatus == IF "status" \in DOMAIN jdoc THEN jdoc.status.JobStatus ELSE NoValue
JobEnded == jexec \in {"SUCCEEDED", "FAILED", "TIMED_OUT"}

\* C1: a poll that returned FAILED leads from 'Check Job Status' straight to
\* 'Job Failed', which ends the execution FAILED with error 'DescribeJob
\* returned FAILED' and cause 'Amazon Textract Job Failed'; no time passes and
\* no further poll is made on the way, whatever the earlier polls returned.
C1_FailedPollEndsInJobFailed ==
  [][ /\ (JobRunning /\ jpc = "CheckJobStatus" /\ LastStatus = "FAILED")
           => /\ jpc' = "JobFailed" /\ jexec' = "RUNNING"
              /\ clock' = clock /\ jdoc' = jdoc /\ polledJobId' = polledJobId
      /\ (JobRunning /\ jpc = "JobFailed")
           => /\ jexec' = "FAILED" /\ jpc' = "JobFailed"
              /\ jerr' = [error |-> "DescribeJob returned FAILED",
                          cause |-> "Amazon Textract Job Failed"]
              /\ clock' = clock /\ jdoc' = jdoc /\ polledJobId' = polledJobId
      /\ (jpc' = "JobFailed") => LastStatus' = "FAILED"
    ]_vars

\* C1 witness: the execution failed in 'Job Failed' after an earlier poll
\* had returned IN_PROGRESS.
C1_Witness ==
  /\ jexec = "FAILED" /\ jpc = "JobFailed" /\ jerr = JobFailedError
  /\ LastStatus = "FAILED" /\ prevStatus = "IN_PROGRESS" /\ clock >= 2

\* C2: a poll that returned SUCCEEDED leads to 'Job Finish', and an execution
\* that succeeded ended there with the output {key, JobId, textractPrefix}
\* where key is the input key, JobId the identifier the submit step of this
\* execution got back, and textractPrefix = key + "/" + JobId.
C2_SucceededOutput ==
  [][ /\ (JobRunning /\ jpc = "CheckJobStatus" /\ LastStatus = "SUCCEEDED")
           => (jpc' = "JobFinish" /\ jexec' = "RUNNING")
      /\ (JobRunning /\ jpc = "JobFinish") => jexec' = "SUCCEEDED"
      /\ (jexec' = "SUCCEEDED")
           => /\ jpc' = "JobFinish"
              /\ jout' = [key |-> jinput'.key,
                          JobId |-> svcJobId',
                          textractPrefix |-> jinput'.key \o "/" \o svcJobId']
    ]_vars

\* C2 witness: the execution for s.pdf, job j2, succeeded after an
\* IN_PROGRESS poll with prefix s.pdf/j2.
C2_Witness ==
  /\ jexec = "SUCCEEDED" /\ jpc = "JobFinish"
  /\ jinput = [key |-> "s.pdf", skipRotation |-> TRUE] /\ svcJobId = "j2"
  /\ jout = [key |-> "s.pdf", JobId |-> "j2", textractPrefix |-> "s.pdf/j2"]
  /\ prevStatus = "IN_PROGRESS"

NonTerminalStatus == LastStatus \notin {"SUCCEEDED", "FAILED", NoValue}

\* C3 (as amended): a poll that returned a status other than SUCCEEDED or
\* FAILED is followed by exactly one Wait of one minute and then the next
\* poll; the cycle is left only on a terminal status, on the workflow
\* timeout, or when the poll call itself throws (no Retry, no Catch).
C3_WaitPollCycle ==
  [][ /\ (JobRunning /\ jpc = "CheckJobStatus" /\ NonTerminalStatus)
           => (jpc' = "Wait1Minute" /\ jexec' = "RUNNING" /\ clock' = clock)
      /\ (JobRunning /\ jpc = "Wait1Minute" /\ NonTerminalStatus)
           => \/ jpc' = "GetDocumentAnalysis" /\ jexec' = "RUNNING"
                   /\ clock' = clock + 1
              \/ jexec' = "TIMED_OUT"
      /\ (JobRunning /\ jpc = "GetDocumentAnalysis" /\ NonTerminalStatus)
           => \/ jpc' = "CheckJobStatus" /\ jexec' = "RUNNING"
              \/ jexec' = "TIMED_OUT"
              \/ jexec' = "FAILED" /\ jerr' \in TaskFailedErrors
    ]_vars

\* C3 as stated: the cycle stops only on a terminal status or on the timeout.
C3_Original ==
  [][ /\ (JobRunning /\ jpc = "CheckJobStatus" /\ NonTerminalStatus)
           => (jpc' = "Wait1Minute" /\ jexec' = "RUNNING" /\ clock' = clock)
      /\ (JobRunning /\ jpc = "Wait1Minute" /\ NonTerminalStatus)
           => \/ jpc' = "GetDocumentAnalysis" /\ jexec' = "RUNNING"
                   /\ clock' = clock + 1
              \/ jexec' = "TIMED_OUT"
      /\ (JobRunning /\ jpc = "GetDocumentAnalysis" /\ NonTerminalStatus)
           => \/ jpc' = "CheckJobStatus" /\ jexec' = "RUNNING"
              \/ jexec' = "TIMED_OUT"
    ]_vars

\* C3 witness: a poll is about to run after a Wait that followed two
\* non-terminal polls, the last of them PARTIAL_SUCCESS.
C3_Witness ==
  /\ JobRunning /\ jpc = "GetDocumentAnalysis"
  /\ LastStatus = "PARTIAL_SUCCESS" /\ prevStatus = "IN_PROGRESS" /\ clock >= 3

\* The transitions of the definition, as pairs <<from, to>>.
JobTransitions ==
  {<<"RunAmazonTextract", "Wait1Minute">>,
   <<"Wait1Minute", "GetDocumentAnalysis">>,
   <<"GetDocumentAnalysis", "CheckJobStatus">>,
   <<"CheckJobStatus", "JobFinish">>,
   <<"CheckJobStatus", "JobFailed">>,
   <<"CheckJobStatus", "Wait1Minute">>}

\* The transitions of the spec's table: Submit is followed directly by Poll.
SpecTableTransitions ==
  {<<"RunAmazonTextract", "GetDocumentAnalysis">>,
   <<"Wait1Minute", "GetDocumentAnalysis">>,
   <<"GetDocumentAnalysis", "CheckJobStatus">>,
   <<"CheckJobStatus", "JobFinish">>,
   <<"CheckJobStatus", "JobFailed">>,
   <<"CheckJobStatus", "Wait1Minute">>}

DecideAsInTable ==
  (jpc = "CheckJobStatus")
    => /\ (LastStatus = "SUCCEEDED") => jpc' = "JobFinish"
       /\ (LastStatus = "FAILED") => jpc' = "JobFailed"
       /\ (LastStatus \notin {"SUCCEEDED", "FAILED"}) => jpc' = "Wait1Minute"

\* C7 (as amended): the control flow has exactly the transitions Submit ->
\* Wait -> Poll, Poll -> Decide, Decide -> Success on SUCCEEDED, Decide ->
\* Failure on FAILED and Decide -> Wait -> Poll otherwise; Success and
\* Failure have no outgoing transition.  The first poll too follows a Wait.
C7_TransitionTable ==
  [][ /\ (jpc' # jpc) => (JobRunning /\ <<jpc, jpc'>> \in JobTransitions)
      /\ DecideAsInTable
      /\ (jpc \in {"JobFinish", "JobFailed"}) => jpc' = jpc
    ]_vars

\* C7 as stated: Submit is followed directly by Poll, with no Wait between.
C7_Original ==
  [][ /\ (jpc' # jpc) => (JobRunning /\ <<jpc, jpc'>> \in SpecTableTransitions)
      /\ DecideAsInTable
      /\ (jpc \in {"JobFinish", "JobFailed"}) => jpc' = jpc
    ]_vars

\* C7 witness: the first poll of an execution is about to run, one Wait
\* after the submit step.
C7_Witness ==
  /\ JobRunning /\ jpc = "GetDocumentAnalysis" /\ submits = 1
  /\ LastStatus = NoValue /\ clock >= WaitMinutes

\* How a job-runner execution can end.
EndedInJobFinish == jexec = "SUCCEEDED" /\ jpc = "JobFinish"
EndedInJobFailed == jexec = "FAILED" /\ jpc = "JobFailed" /\ jerr = JobFailedError
EndedByTimeout == jexec = "TIMED_OUT" /\ clock = TimeoutMinutes
EndedByThrownCall ==
  /\ jexec = "FAILED" /\ jerr \in TaskFailedErrors
  /\ jpc \in {"RunAmazonTextract", "GetDocumentAnalysis"}

\* C8 (as amended): every execution eventually ends, in 'Job Finish', in
\* 'Job Failed', by the 180-minute timeout, or because a service call threw;
\* no execution polls forever, and none runs past 180 minutes.
C8_Terminates ==
  /\ <>JobEnded
  /\ [](JobEnded => (EndedInJobFinish \/ EndedInJobFailed \/ EndedByTimeout
                       \/ EndedByThrownCall))
  /\ [](clock <= TimeoutMinutes)

\* C8 as stated: an execution that ended reached 'Job Finish' or 'Job
\* Failed' or was stopped by the timeout.
C8_Original ==
  JobEnded => (EndedInJobFinish \/ EndedInJobFailed \/ EndedByTimeout)

\* C8 witness: the execution was stopped by the timeout at 180 minutes after
\* polls that never returned a terminal status.
C8_Witness ==
  /\ EndedByTimeout /\ jpc = "Wait1Minute"
  /\ LastStatus = "IN_PROGRESS" /\ prevStatus = "IN_PROGRESS"

-----------------------------------------------------------------------------
(* Properties of the orientation-correction pipeline.                      *)

InputFlagAbsent == "skipRotation" \notin DOMAIN pinput
InputFlagFalse == "skipRotation" \in DOMAIN pinput /\ pinput.skipRotation = FALSE
InputFlagTrue == "skipRotation" \in DOMAIN pinput /\ pinput.skipRotation = TRUE

IsPrefix(t, u) == Len(t) <= Len(u) /\ t = SubSeq(u, 1, Len(t))

RotationPath ==
  <<"pdfToImagesTask", "skipRotationChoice", "analyzeDocumentImagesTask",
    "correctImageOrientationTask", "Wait5Seconds", "imagesToPdfTask">>
SkipPath ==
  <<"pdfToImagesTask", "skipRotationChoice", "SkipFixingRotation",
    "imagesToPdfTask">>

RunsRotationBeforeRecombination ==
  /\ IsPrefix(ptrace, RotationPath)
  /\ (ppc = "imagesToPdfTask") => (ptrace = RotationPath /\ pwaited = 5)

\* C4 (as amended): when the skip-rotation field is absent from the input,
\* the execution runs orientation-detect, then orientation-correct, then the
\* 5-second wait, in that order, before images-to-pdf.  (A field present with
\* the value false is a field present: the choice tests presence.)
C4_AbsentRunsRotation == InputFlagAbsent => RunsRotationBeforeRecombination

\* C4 as stated: the same when the flag is absent or has the value false.
C4_Original == (InputFlagAbsent \/ InputFlagFalse) => RunsRotationBeforeRecombination

\* C4 witness: an execution without the field succeeded along the path
\* split, choice, detect, correct, wait, recombine.
C4_Witness ==
  /\ InputFlagAbsent /\ pexec = "SUCCEEDED" /\ ptrace = RotationPath
  /\ pwaited = WaitSeconds /\ "corrected" \in DOMAIN pout

\* C5: when the skip-rotation flag is true, none of orientation-detect,
\* orientation-correct and the 5-second wait is executed, and the task that
\* runs after page-splitting is images-to-pdf.
C5_TrueSkipsRotation ==
  InputFlagTrue
    => /\ IsPrefix(ptrace, SkipPath)
       /\ pwaited = 0
       /\ (ppc = "imagesToPdfTask") => ptrace = SkipPath
       /\ \A i \in 1..Len(ptrace) :
            ptrace[i] \notin {"analyzeDocumentImagesTask",
                              "correctImageOrientationTask", "Wait5Seconds"}

\* C5 witness: an execution with skipRotation = true succeeded along the
\* path split, choice, skip, recombine.
C5_Witness ==
  /\ InputFlagTrue /\ pexec = "SUCCEEDED" /\ ptrace = SkipPath
  /\ "corrected" \notin DOMAIN pout /\ "pdf" \in DOMAIN pout

-----------------------------------------------------------------------------
(* Properties of the top-level orchestrator.                               *)

ScriptsTransformSid == "ScriptsTransformFormResultStateMachineExecution"
AnswerTransformSid == "AnswerTransformFormResultStateMachineExecution"
GenerateMarkSid == "GenerateMarkResultStateMachineExecution"

BranchSids ==
  {BranchDefinition(b)[i].sid : b \in Branches, i \in 2..4}

StartsIn(seq, sid) == Cardinality({i \in 1..Len(seq) : seq[i].sid = sid})
StartsOf(sid) == StartsIn(started, sid)
InputOf(sid) ==
  (CHOOSE e \in {started[i] : i \in 1..Len(started)} : e.sid = sid).input

\* The Parallel state has produced its output and mark generation has not
\* replaced it yet.
Merged ==
  /\ opc = "GenerateMarkResultStateMachineExecution"
  /\ GenerateMarkSid \notin DOMAIN completed

\* C6: whatever the order in which the branches complete, the merged record
\* has in 'scripts' the output of the transform execution of branch 0, the
\* branch started from scriptsKey, and in 'standardAnswer' that of branch 1,
\* the branch started from standardAnswerKey.
C6_MergedPositionally ==
  Merged
    => /\ DOMAIN odoc = {"scripts", "standardAnswer"}
       /\ odoc.scripts = bdoc[0].Output
       /\ odoc.standardAnswer = bdoc[1].Output
       /\ odoc.scripts = completed[ScriptsTransformSid]
       /\ odoc.standardAnswer = completed[AnswerTransformSid]
       /\ odoc.scripts.transformed.key = oinput.scriptsKey
       /\ odoc.standardAnswer.transformed.key = oinput.standardAnswerKey

\* C6 witness: the record was merged after branch 1 completed before branch
\* 0, with different keys.
C6_Witness ==
  /\ Merged /\ finished = <<1, 0>>
  /\ oinput.scriptsKey = "s.pdf" /\ oinput.standardAnswerKey = "a.pdf"
  /\ odoc.scripts.transformed.key = "s.pdf"

\* C9: once a child execution of a branch has failed, the orchestrator
\* execution is FAILED: that child was started once only, the Parallel state
\* produced no record, mark generation was not started, and nothing happens
\* afterwards.
C9_ChildFailureIsTerminal ==
  [][ /\ (failed' \in BranchSids)
           => /\ oexec' = "FAILED"
              /\ opc' = "ProcessParallel" /\ odoc' = oinput'
              /\ oout' = EmptyDoc
              /\ StartsIn(started', failed') = 1
              /\ ~GenerateMarkStarted'
              /\ \A b \in Branches : bphase'[b] \in {"failed", "aborted", "done"}
      /\ (failed \in BranchSids) => UNCHANGED ovars
    ]_vars

\* C9 witness: the analysis execution of branch 1 failed after branch 0 had
\* completed.
C9_Witness ==
  /\ failed = "AnswerAmazonTextractMultiPagesDocumentsStateMachineExecution"
  /\ oexec = "FAILED" /\ bphase[0] = "done" /\ bphase[1] = "failed"

\* C10: mark generation is started only when both branches have completed
\* successfully, its input is the merged record {scripts, standardAnswer},
\* and the output of its task state is the output of the execution.
C10_MarkGenerationAfterMerge ==
  /\ GenerateMarkStarted
       => /\ \A b \in Branches : bphase[b] = "done"
          /\ failed \notin BranchSids
          /\ StartsOf(GenerateMarkSid) = 1
          /\ InputOf(GenerateMarkSid)
               = [scripts |-> completed[ScriptsTransformSid],
                  standardAnswer |-> completed[AnswerTransformSid]]
  /\ (oexec = "SUCCEEDED")
       => /\ GenerateMarkStarted
          /\ oout = [Input |-> InputOf(GenerateMarkSid),
                     Output |-> completed[GenerateMarkSid],
                     Status |-> "SUCCEEDED"]
          /\ oout.Output = [marks |-> InputOf(GenerateMarkSid)]

\* C10 witness: the execution succeeded with the marks made from both
\* branches' outputs, branch 1 having completed first.
C10_Witness ==
  /\ oexec = "SUCCEEDED" /\ finished = <<1, 0>>
  /\ oout.Output.marks.scripts.transformed.key = oinput.scriptsKey
  /\ oinput.scriptsKey # oinput.standardAnswerKey

\* The child state machines of a branch, in the order the spec gives.
BranchOrder ==
  <<"CorrectPdfOrientation", "AmazonTextractMultiPagesDocuments",
    "TransformFormResult">>

SidsOf(b) == {BranchDefinition(b)[i].sid : i \in 2..4}
MachineOfSid(sid) ==
  (CHOOSE t \in {BranchDefinition(b)[i] : b \in Branches, i \in 2..4} :
     t.sid = sid).stateMachine
\* The child executions branch b has started, in the order it started them.
StartedBy(b) == SelectSeq(started, LAMBDA e : e.sid \in SidsOf(b))
StartedMachines(b) ==
  [i \in 1..Len(StartedBy(b)) |-> MachineOfSid(StartedBy(b)[i].sid)]

\* C11: in each branch the child executions are started in the order
\* orientation-correction, document-analysis, result-transform, each after
\* the one before it in the same branch has succeeded; both branches have
\* this same order.
C11_BranchOrder ==
  \A b \in Branches :
    /\ IsPrefix(StartedMachines(b), BranchOrder)
    /\ \A i \in 2..Len(StartedBy(b)) : StartedBy(b)[i - 1].sid \in DOMAIN completed
    /\ (bphase[b] = "done") => StartedMachines(b) = BranchOrder

\* C11 witness: both branches have started their three child executions,
\* branch 1 first at every stage, and completed.
C11_Witness ==
  /\ Len(started) = 6 /\ finished = <<1, 0>>
  /\ started[1].sid = "AnswerCorrectPdfOrientationStateMachineExecution"
  /\ started[6].sid = "ScriptsTransformFormResultStateMachineExecution"

\* C12: a job-runner execution submits the analysis job once: the submit
\* step is where the execution starts, no step ever returns to it, and every
\* poll asks about the one job the submit step was given.
C12_SubmittedOnce ==
  /\ [](/\ submits <= 1
        /\ (submits = 0) => (jpc = "RunAmazonTextract")
        /\ (jpc # "RunAmazonTextract") => (submits = 1)
        /\ (polledJobId # NoValue) => (polledJobId = svcJobId))
  /\ [][(jpc' = "RunAmazonTextract") => (jpc = "RunAmazonTextract")]_vars

\* C12 witness: a second poll of the job, after a poll that said IN_PROGRESS.
C12_Witness ==
  /\ JobRunning /\ jpc = "CheckJobStatus"
  /\ prevStatus = "IN_PROGRESS" /\ submits = 1
  /\ polledJobId = svcJobId /\ polledJobId = "j2"

\* C15: 'Job Finish' is entered only from 'Check Job Status' when the last
\* poll returned exactly SUCCEEDED and 'Job Failed' only when it returned
\* exactly FAILED; on any other status, PARTIAL_SUCCESS included, the choice
\* goes where it goes on IN_PROGRESS, to the Wait, and the execution keeps
\* running.
C15_ExactStatusMatch ==
  [][ /\ (jpc' = "JobFinish" /\ jpc # "JobFinish")
           => (jpc = "CheckJobStatus" /\ LastStatus = "SUCCEEDED")
      /\ (jpc' = "JobFailed" /\ jpc # "JobFailed")
           => (jpc = "CheckJobStatus" /\ LastStatus = "FAILED")
      /\ (jexec' = "SUCCEEDED" /\ JobRunning) => jpc = "JobFinish"
      /\ (JobRunning /\ jpc = "CheckJobStatus"
            /\ LastStatus \notin {"SUCCEEDED", "FAILED"})
           => /\ jpc' = CheckJobStatus([jdoc EXCEPT !.status.JobStatus = "IN_PROGRESS"])
              /\ jpc' = "Wait1Minute"
              /\ jexec' = "RUNNING"
    ]_vars

\* C15 witness: a poll returned PARTIAL_SUCCESS, the execution went on
\* polling and succeeded on a later poll.
C15_Witness ==
  /\ jexec = "SUCCEEDED" /\ jpc = "JobFinish"
  /\ prevStatus = "PARTIAL_SUCCESS" /\ clock >= 2

\* The fields of document d other than 'status' are those of e, unchanged.
SameButStatus(d, e) ==
  /\ DOMAIN d \ {"status"} = DOMAIN e \ {"status"}
  /\ \A f \in DOMAIN e \ {"status"} : d[f] = e[f]

\* C18: after the submit step the key and the stored JobId of the document
\* are the input key and the submitted job's id and stay so: a poll changes
\* only the status field, Wait and 'Check Job Status' change nothing, and
\* every poll asks about the JobId the submit step returned.
C18_PollWritesOnlyStatus ==
  [][ /\ (JobRunning /\ jpc \in {"Wait1Minute", "CheckJobStatus"}) => jdoc' = jdoc
      /\ (JobRunning /\ jpc = "GetDocumentAnalysis")
           => /\ SameButStatus(jdoc', jdoc)
              /\ (jpc' = "CheckJobStatus")
                   => ("status" \in DOMAIN jdoc' /\ polledJobId' = svcJobId)
      /\ (jpc # "RunAmazonTextract") => svcJobId' = svcJobId
      /\ (JobRunning' /\ jpc' # "RunAmazonTextract")
           => /\ jdoc'.key = jinput.key
              /\ jdoc'.textract.JobId = svcJobId'
    ]_vars

\* C18 witness: after two polls the document holds the input's fields, the
\* submitted JobId and the status of the second poll only.
C18_Witness ==
  /\ JobRunning /\ jpc = "CheckJobStatus" /\ prevStatus = "IN_PROGRESS"
  /\ svcJobId = "j1" /\ polledJobId = "j1"
  /\ jdoc = [key |-> "a.pdf", skipRotation |-> TRUE,
             textract |-> [JobId |-> "j1"],
             status |-> [JobStatus |-> "PARTIAL_SUCCESS"]]

ScriptsCorrectSid == scriptsCorrectPdfOrientationStateMachineExecution.sid
AnswerCorrectSid == answerCorrectPdfOrientationStateMachineExecution.sid

\* The path the orientation pipeline takes on `input` after its page split.
PathTakenOn(input) ==
  {SkipRotationChoice(LambdaInvokeOutput(input, PdfToImagesPayload(input, n))) :
     n \in 1..MaxPages}

\* C16: whatever the orchestrator's input holds, the standardAnswer branch
\* starts its orientation execution on {key, skipRotation}, which takes the
\* skip path, and the scripts branch starts its own on {key} alone, which
\* takes the analyze/correct/wait path.
C16_SkipFlagPerBranch ==
  \A i \in 1..Len(started) :
    /\ (started[i].sid = AnswerCorrectSid)
         => /\ "skipRotation" \in DOMAIN started[i].input
            /\ started[i].input.key = oinput.standardAnswerKey
            /\ PathTakenOn(started[i].input) = {"SkipFixingRotation"}
    /\ (started[i].sid = ScriptsCorrectSid)
         => /\ started[i].input = [key |-> oinput.scriptsKey]
            /\ PathTakenOn(started[i].input) = {"analyzeDocumentImagesTask"}

\* C16 witness: the caller's input carries a skipRotation field and an Input
\* field of its own; both orientation executions ran, the scripts' one with
\* the correction, the standardAnswer's one without.
C16_Witness ==
  /\ "skipRotation" \in DOMAIN oinput /\ "Input" \in DOMAIN oinput
  /\ oinput.scriptsKey = "s.pdf" /\ oinput.standardAnswerKey = "a.pdf"
  /\ ScriptsCorrectSid \in DOMAIN completed
  /\ AnswerCorrectSid \in DOMAIN completed
  /\ "corrected" \in DOMAIN completed[ScriptsCorrectSid]
  /\ "corrected" \notin DOMAIN completed[AnswerCorrectSid]

ScriptsTextractSid == scriptsAmazonTextractMultiPagesDocumentsStateMachineExecution.sid
AnswerTextractSid == answerAmazonTextractMultiPagesDocumentsStateMachineExecution.sid

\* The output record of a document-analysis execution on `key`.
AnalysisRecordOf(r, key) ==
  /\ DOMAIN r = {"key", "JobId", "textractPrefix"}
  /\ r.key = key
  /\ r.textractPrefix = key \o "/" \o r.JobId

\* C17: the orientation and analysis executions of the scripts branch are
\* started with key = scriptsKey, those of the standardAnswer branch with
\* key = standardAnswerKey, and the transform execution of a branch is
\* started with the output record {key, JobId, textractPrefix} of the
\* analysis execution of the same branch.
C17_KeyRouting ==
  \A i \in 1..Len(started) :
    LET e == started[i]
    IN /\ (e.sid \in {ScriptsCorrectSid, ScriptsTextractSid})
            => e.input.key = oinput.scriptsKey
       /\ (e.sid \in {AnswerCorrectSid, AnswerTextractSid})
            => e.input.key = oinput.standardAnswerKey
       /\ (e.sid = ScriptsTransformSid)
            => /\ ScriptsTextractSid \in DOMAIN completed
               /\ e.input = completed[ScriptsTextractSid]
               /\ AnalysisRecordOf(e.input, oinput.scriptsKey)
       /\ (e.sid = AnswerTransformSid)
            => /\ AnswerTextractSid \in DOMAIN completed
               /\ e.input = completed[AnswerTextractSid]
               /\ AnalysisRecordOf(e.input, oinput.standardAnswerKey)

\* C17 witness: with different keys and different jobs, both transform
\* executions have been started, each on its own branch's analysis output.
C17_Witness ==
  /\ oinput.scriptsKey = "s.pdf" /\ oinput.standardAnswerKey = "a.pdf"
  /\ StartsOf(ScriptsTransformSid) = 1 /\ StartsOf(AnswerTransformSid) = 1
  /\ InputOf(ScriptsTransformSid) =
       [key |-> "s.pdf", JobId |-> "j1", textractPrefix |-> "s.pdf/j1"]
  /\ InputOf(AnswerTransformSid) =
       [key |-> "a.pdf", JobId |-> "j2", textractPrefix |-> "a.pdf/j2"]

-----------------------------------------------------------------------------
(* Failures of the orientation pipeline's compute steps.                   *)

\* This step is an attempt of a compute step that failed.
FailedAttempt ==
  /\ pexec = "RUNNING" /\ ppc \in PipelineTasks
  /\ perr' # NoValue
  /\ pretries' = pretries + 1 \/ pexec' = "FAILED"

\* C13 (as amended): a compute step that fails with an error of the
\* function, or with a Lambda service exception after 6 retries, makes the
\* whole execution fail: no later step runs and no output is produced.  A
\* step that fails with a Lambda service exception is retried, on the same
\* input, up to 6 times before that.
C13_FailureAfterRetries ==
  [][ /\ FailedAttempt
           => IF perr' \in ServiceExceptions /\ pretries < 6
              THEN /\ pexec' = "RUNNING" /\ ppc' = ppc /\ pdoc' = pdoc
                   /\ pretries' = pretries + 1 /\ ptrace' = ptrace
              ELSE /\ pexec' = "FAILED" /\ ppc' = ppc /\ ptrace' = ptrace
                   /\ pout' = EmptyDoc
      /\ (pexec = "FAILED") => (pvars' = pvars)
      /\ (pexec' = "SUCCEEDED") => (pexec = "RUNNING" /\ ppc = "imagesToPdfTask")
    ]_vars

\* C13 as stated: a failed attempt of a compute step fails the execution;
\* the step is not retried.
C13_Original ==
  [][ /\ FailedAttempt
           => /\ pexec' = "FAILED" /\ ppc' = ppc /\ ptrace' = ptrace
              /\ pout' = EmptyDoc
      /\ (pexec = "FAILED") => (pvars' = pvars)
      /\ (pexec' = "SUCCEEDED") => (pexec = "RUNNING" /\ ppc = "imagesToPdfTask")
    ]_vars

\* C13 witness: the orientation-correct step failed for good with a service
\* exception on the attempt after its sixth retry; nothing was produced.
C13_Witness ==
  /\ pexec = "FAILED" /\ ppc = "correctImageOrientationTask"
  /\ pretries = 6 /\ perr = "Lambda.ServiceException"
  /\ pout = EmptyDoc

====
